---------------------------- MODULE Spec2Model ----------------------------
(***************************************************************************)
(* NetTag configuration service: the setting table, the filename           *)
(* validator, the environment-variable parser and the ConfigService         *)
(* singleton with its get/set operations over a persistent Conf store.     *)
(***************************************************************************)
EXTENDS Naturals, Sequences, FiniteSets, TLC

VARIABLES
    platformWin32,                \* process.platform === "win32"
    env,                          \* process.env: variable name -> text or undefined
    constructorCalledInternally,  \* ConfigService.#constructorCalledInternally
    instance,                     \* ConfigService.#instance
    confsCreated,                 \* number of Conf store handles opened (new Conf(...))
    store,                        \* contents of the Conf store file of the instance
    ret                           \* the last call made by the surrounding server and its outcome

vars == <<platformWin32, env, constructorCalledInternally, instance,
          confsCreated, store, ret>>

---------------------------------------------------------------------------
(* JavaScript values.  Every value is a record tagged by its type so that  *)
(* values of different types can be compared.                              *)

JUndef == [t |-> "undefined"]
JNull == [t |-> "null"]
JBool(b) == [t |-> "boolean", b |-> b]
\* a string is the sequence of its characters
JStr(s) == [t |-> "string", s |-> s]
JArr(elems) == [t |-> "array", elems |-> elems]
\* an object is the function from its own property names to their values
JObj(props) == [t |-> "object", props |-> props]
\* a function object inherited from Object.prototype (e.g. toString)
JFunc == [t |-> "function"]

\* obj?.name : undefined when obj has no such property
Prop(obj, name) ==
    IF obj.t = "object" /\ name \in DOMAIN obj.props THEN obj.props[name] ELSE JUndef

\* Characters.  CTL stands for the ASCII control characters 1..31, NUL for \0.
NUL == "NUL"
CTL == "CTL"
Slash == "/"
Backslash == "\\"

\* Outcome of a call: it returns a value or throws an error.
Return(v) == [kind |-> "return", value |-> v]
Throw(name, msg) == [kind |-> "throw", name |-> name, msg |-> msg]

SyntaxError == Throw("SyntaxError", "Unexpected token in JSON")
CastFailed == Throw("TypeError", "Cast failed: value does not match expected shape")
ShapeMismatch == Throw("TypeError", "Cannot set key: value does not match expected shape")
UnknownSettingKey == Throw("TypeError", "key is not a valid key in the setting table")
NotExternallyConstructable == Throw("TypeError", "ConfigService is not externally constructable")
InvalidAppName == Throw("TypeError", "APP_NAME must be a legal directory name")
InvalidInstanceName == Throw("TypeError", "ConfigService must have a valid instance name")
UndefinedProperty == Throw("TypeError", "Cannot read properties of undefined")
NotAFunction == Throw("TypeError", "cast is not a function")

---------------------------------------------------------------------------
(* helpers: parseEnv *)

\* The text of an environment variable that is set.
EnvText(text) == [t |-> "envtext", text |-> text]

ObjText == "{\"whitelist\":false,\"pathFragments\":[]}"

\* JSON.parse on the texts the model's environments hold.
JSONparse(text) ==
    CASE text = "null" -> Return(JNull)
      [] text = "true" -> Return(JBool(TRUE))
      [] text = "false" -> Return(JBool(FALSE))
      [] text = ObjText ->
            Return(JObj([whitelist |-> JBool(FALSE), pathFragments |-> JArr(<<>>)]))
      [] OTHER -> SyntaxError

\* process.env[key]
ProcessEnv(key) == IF key \in DOMAIN env THEN env[key] ELSE JUndef

\* JSON.parse(process.env[key] ?? "null")
parseEnv(key) ==
    LET raw == ProcessEnv(key)
    IN JSONparse(IF raw = JUndef THEN "null" ELSE raw.text)

---------------------------------------------------------------------------
(* validation: isValidFilename *)

WinForbiddenInternal == {"<", ">", ":", "\"", "|", "?", "*", CTL}
WinForbiddenSuffix == {" ", "."}

\* The class with '/' left out of blockedSlashes
IllegalChars_SlashAllowed(allowSubDir, interchangableSlashes, enforceWindowsRules) ==
    {NUL}
    \cup (IF ~allowSubDir /\ (enforceWindowsRules \/ interchangableSlashes)
          THEN {Backslash} ELSE {})
    \cup (IF enforceWindowsRules THEN WinForbiddenInternal ELSE {})

\* The class with '\' blocked under Windows rules only
IllegalChars_BackslashWindowsOnly(allowSubDir, interchangableSlashes, enforceWindowsRules) ==
    {NUL}
    \cup (IF ~allowSubDir
          THEN {Slash} \cup (IF enforceWindowsRules THEN {Backslash} ELSE {})
          ELSE {})
    \cup (IF enforceWindowsRules THEN WinForbiddenInternal ELSE {})

\* The characters of the class [\0${blockedSlashes}${winForbiddenInternal}]
IllegalChars(allowSubDir, interchangableSlashes, enforceWindowsRules) ==
    {NUL}
    \cup (IF ~allowSubDir
          THEN {Slash} \cup (IF enforceWindowsRules \/ interchangableSlashes
                             THEN {Backslash} ELSE {})
          ELSE {})
    \cup (IF enforceWindowsRules THEN WinForbiddenInternal ELSE {})

\* The match with the suffix group applied to single file names only
MatchesIllegal_SuffixForFileNamesOnly(testStr, allowSubDir, interchangableSlashes, enforceWindowsRules) ==
    \/ \E i \in 1..Len(testStr) :
          testStr[i] \in IllegalChars(allowSubDir, interchangableSlashes, enforceWindowsRules)
    \/ /\ enforceWindowsRules
       /\ ~allowSubDir
       /\ Len(testStr) > 0
       /\ testStr[Len(testStr)] \in WinForbiddenSuffix

\* testStr.match(illegalChars) !== null
MatchesIllegal(testStr, allowSubDir, interchangableSlashes, enforceWindowsRules) ==
    \/ \E i \in 1..Len(testStr) :
          testStr[i] \in IllegalChars(allowSubDir, interchangableSlashes, enforceWindowsRules)
    \/ /\ enforceWindowsRules
       /\ Len(testStr) > 0
       /\ testStr[Len(testStr)] \in WinForbiddenSuffix

\* process.platform === "win32" || parseEnv("ENFORCE_WINDOWS_FILENAMES") === true
EnforceWindowsRules ==
    IF platformWin32 THEN Return(TRUE)
    ELSE LET p == parseEnv("ENFORCE_WINDOWS_FILENAMES")
         IN IF p.kind = "throw" THEN p ELSE Return(p.value = JBool(TRUE))

\* isValidFilename without the tests for ".", ".."
isValidFilename_NoReservedNames(testStr, allowSubDir, interchangableSlashes) ==
    LET w == EnforceWindowsRules
    IN IF w.kind = "throw" THEN w
       ELSE Return(/\ testStr # <<>>
                   /\ ~MatchesIllegal(testStr, allowSubDir, interchangableSlashes, w.value))

isValidFilename(testStr, allowSubDir, interchangableSlashes) ==
    LET w == EnforceWindowsRules
    IN IF w.kind = "throw" THEN w
       ELSE Return(/\ testStr # <<>>
                   /\ testStr # <<".">>
                   /\ testStr # <<".", ".">>
                   /\ ~MatchesIllegal(testStr, allowSubDir, interchangableSlashes, w.value))

---------------------------------------------------------------------------
(* validation: partialObjGuard / isObject *)

\* typeof v === "object" && !Array.isArray(v) && v !== null
isObject(test_val) == test_val.t = "object"

partialObjGuard(data) == isObject(data)

---------------------------------------------------------------------------
(* settingsModel: buildSetting, buildPathFragmentSetting, settingTable *)

\* The callback of data.pathFragments.every(...) for one fragment.
FragmentValid(fragment, allowSubDir, allowEmptyStr) ==
    IF ~partialObjGuard(fragment) THEN Return(FALSE)
    ELSE IF \/ Prop(fragment, "caseSensitive").t # "boolean"
            \/ Prop(fragment, "interchangeableSlashes").t # "boolean"
         THEN Return(FALSE)
    ELSE IF ~allowEmptyStr /\ Prop(fragment, "data") = JStr(<<>>)
         THEN Return(FALSE)
    ELSE IF Prop(fragment, "data").t # "string" THEN Return(FALSE)
    ELSE isValidFilename(Prop(fragment, "data").s, allowSubDir,
                         Prop(fragment, "interchangeableSlashes").b)

\* Array.prototype.every: stops at the first fragment that is rejected; a
\* throwing callback ends the iteration with that error.
RECURSIVE Every(_, _, _)
Every(fragments, allowSubDir, allowEmptyStr) ==
    IF fragments = <<>> THEN Return(TRUE)
    ELSE LET h == FragmentValid(Head(fragments), allowSubDir, allowEmptyStr)
         IN IF h.kind = "throw" THEN h
            ELSE IF ~h.value THEN Return(FALSE)
            ELSE Every(Tail(fragments), allowSubDir, allowEmptyStr)

\* validateFn without the test for an empty whitelist
ValidatePathFragmentList_AnyEmptyList(data, allowSubDir, allowEmptyStr) ==
    IF ~partialObjGuard(data) THEN Return(FALSE)
    ELSE IF Prop(data, "whitelist").t # "boolean" THEN Return(FALSE)
    ELSE IF Prop(data, "pathFragments").t # "array" THEN Return(FALSE)
    ELSE Every(Prop(data, "pathFragments").elems, allowSubDir, allowEmptyStr)

\* validateFn of buildPathFragmentSetting(envVar, allowSubDir, allowEmptyStr)
ValidatePathFragmentList(data, allowSubDir, allowEmptyStr) ==
    IF ~partialObjGuard(data) THEN Return(FALSE)
    ELSE IF Prop(data, "whitelist").t # "boolean" THEN Return(FALSE)
    ELSE IF Prop(data, "pathFragments").t # "array" THEN Return(FALSE)
    ELSE IF Prop(data, "whitelist").b /\ Len(Prop(data, "pathFragments").elems) = 0
         THEN Return(FALSE)
    ELSE Every(Prop(data, "pathFragments").elems, allowSubDir, allowEmptyStr)

\* validateFn of the boolean settings
ValidateBoolean(data) == Return(data.t = "boolean")

buildPathFragmentSetting(envVar, allowSubDir, allowEmptyStr) ==
    [shape |-> "pathFragmentList", envVar |-> envVar,
     allowSubDir |-> allowSubDir, allowEmptyStr |-> allowEmptyStr]

buildBooleanSetting(envVar) ==
    [shape |-> "boolean", envVar |-> envVar]

settingTable ==
    [trackedExtensions |-> buildPathFragmentSetting("TRACKED_EXTENSIONS", FALSE, TRUE),
     trackedFilenames |-> buildPathFragmentSetting("TRACKED_FILENAMES", FALSE, FALSE),
     trackedDirectories |-> buildPathFragmentSetting("TRACKED_DIRECTORIES", TRUE, FALSE),
     interchangeableSlashes |-> buildBooleanSetting("INTERCHANGEABLE_SLASHES"),
     enableThumbnailCache |-> buildBooleanSetting("ENABLE_THUMBNAIL_CACHE")]

\* Object.keys(table)
getKeys == DOMAIN settingTable

\* Object.keys(table).includes(String(key))
hasKey(key) == key \in getKeys

\* setting.validate(data)
validate(setting, data) ==
    IF setting.shape = "boolean" THEN ValidateBoolean(data)
    ELSE ValidatePathFragmentList(data, setting.allowSubDir, setting.allowEmptyStr)

\* cast as a bare type assertion: the data is returned unchecked
cast_Unchecked(setting, data) == Return(data)

\* cast that yields null for data of the wrong shape in place of an error
cast_NullOnMismatch(setting, data) ==
    LET v == validate(setting, data)
    IN IF v.kind = "throw" THEN v
       ELSE IF v.value THEN Return(data)
       ELSE Return(JNull)

\* setting.cast(data): data itself when it validates, else a TypeError
cast(setting, data) ==
    LET v == validate(setting, data)
    IN IF v.kind = "throw" THEN v
       ELSE IF v.value THEN Return(data)
       ELSE CastFailed

---------------------------------------------------------------------------
(* The inputs the surrounding server and the process environment supply *)

\* A key that is in no table, and a key the table object inherits from
\* Object.prototype without owning it.
InheritedKeys == {"toString"}
AllKeys == getKeys \cup {"badKey"} \cup InheritedKeys

Fragment(data, interchangeableSlashes) ==
    JObj([data |-> JStr(data), caseSensitive |-> JBool(TRUE),
          interchangeableSlashes |-> JBool(interchangeableSlashes)])

FragmentList(whitelist, fragments) ==
    JObj([whitelist |-> JBool(whitelist), pathFragments |-> JArr(fragments)])

\* The values handed to set and found in a persisted store.
Values ==
    { JNull, JBool(TRUE), JBool(FALSE),
      FragmentList(FALSE, <<>>),
      FragmentList(TRUE, <<>>),
      FragmentList(TRUE, <<Fragment(<<"a", ".">>, TRUE)>>),
      FragmentList(FALSE, <<Fragment(<<>>, TRUE)>>),
      FragmentList(FALSE, <<Fragment(<<"a", Slash, "b">>, TRUE)>>),
      FragmentList(FALSE, <<JStr(<<"m", "p", "v">>)>>),
      JObj([whitelist |-> JBool(FALSE)]) }

\* The instance names handed to instantiate and to the constructor.
InstanceNames ==
    { <<>>, <<".">>, <<".", ".">>, <<"a">>, <<"a", ".">>,
      <<"a", Slash>>, <<"a", Backslash>>, <<"a", "<">>, <<"a", NUL>> }

SettingEnvVars == { settingTable[k].envVar : k \in getKeys }
EnvVars == SettingEnvVars \cup {"ENFORCE_WINDOWS_FILENAMES"}

Unparsable == "{oops"
EnforceTexts == { JUndef, EnvText("true"), EnvText(Unparsable) }
SettingTexts == { JUndef, EnvText("true"), EnvText(ObjText), EnvText(Unparsable) }

\* The environment in which the override flag holds e and every setting's
\* variable holds s.
Environment(e, s) ==
    [v \in EnvVars |-> IF v = "ENFORCE_WINDOWS_FILENAMES" THEN e ELSE s]

\* The processes of the model, [win32, env]: any platform and override flag
\* with the settings' variables unset, and the settings' variables set on a
\* POSIX platform without the override.
Processes ==
    { [win32 |-> w, env |-> Environment(e, JUndef)] : w \in BOOLEAN, e \in EnforceTexts }
    \cup { [win32 |-> FALSE, env |-> Environment(JUndef, s)] : s \in SettingTexts }

\* The most keys the store holds at once.
MaxStoredKeys == 1

EmptyStore == [k \in AllKeys |-> JUndef]

\* Store files left by an earlier run or edited by hand.
PersistedStores ==
    { EmptyStore,
      [EmptyStore EXCEPT !["badKey"] = JBool(TRUE)],
      [EmptyStore EXCEPT !["enableThumbnailCache"] = FragmentList(FALSE, <<>>)],
      [EmptyStore EXCEPT !["trackedExtensions"] = JNull] }

---------------------------------------------------------------------------
(* configService: ConfigService *)

APP_NAME == <<"N", "e", "t", "T", "a", "g">>

\* table[key] in the getter: the setting, an inherited member, or undefined
TableLookup(key) ==
    IF hasKey(key) THEN settingTable[key]
    ELSE IF key \in InheritedKeys THEN [shape |-> "inherited"]
    ELSE [shape |-> "undefined"]

\* the constructor without the test of the instance name
constructor_NoNameCheck(called, instanceName) ==
    IF ~called THEN [outcome |-> NotExternallyConstructable, flag |-> called]
    ELSE LET app == isValidFilename(APP_NAME, FALSE, TRUE)
         IN IF app.kind = "throw" THEN [outcome |-> app, flag |-> FALSE]
            ELSE IF ~app.value THEN [outcome |-> InvalidAppName, flag |-> FALSE]
            ELSE [outcome |-> Return([t |-> "ConfigService", id |-> confsCreated + 1,
                                      projectName |-> APP_NAME,
                                      configName |-> instanceName]),
                  flag |-> FALSE]

\* the constructor lowering the gate flag only once the names are validated
constructor_LowersFlagLast(called, instanceName) ==
    IF ~called THEN [outcome |-> NotExternallyConstructable, flag |-> called]
    ELSE LET app == isValidFilename(APP_NAME, FALSE, TRUE)
             name == isValidFilename(instanceName, FALSE, TRUE)
         IN IF app.kind = "throw" THEN [outcome |-> app, flag |-> called]
            ELSE IF ~app.value THEN [outcome |-> InvalidAppName, flag |-> called]
            ELSE IF name.kind = "throw" THEN [outcome |-> name, flag |-> called]
            ELSE IF ~name.value THEN [outcome |-> InvalidInstanceName, flag |-> called]
            ELSE [outcome |-> Return([t |-> "ConfigService", id |-> confsCreated + 1,
                                      projectName |-> APP_NAME,
                                      configName |-> instanceName]),
                  flag |-> FALSE]

\* new ConfigService(instanceName), entered with the gate flag holding `called`:
\* the outcome and the flag it leaves.
constructor(called, instanceName) ==
    IF ~called THEN [outcome |-> NotExternallyConstructable, flag |-> called]
    ELSE LET app == isValidFilename(APP_NAME, FALSE, TRUE)
             name == isValidFilename(instanceName, FALSE, TRUE)
         IN IF app.kind = "throw" THEN [outcome |-> app, flag |-> FALSE]
            ELSE IF ~app.value THEN [outcome |-> InvalidAppName, flag |-> FALSE]
            ELSE IF name.kind = "throw" THEN [outcome |-> name, flag |-> FALSE]
            ELSE IF ~name.value THEN [outcome |-> InvalidInstanceName, flag |-> FALSE]
            ELSE [outcome |-> Return([t |-> "ConfigService", id |-> confsCreated + 1,
                                      projectName |-> APP_NAME,
                                      configName |-> instanceName]),
                  flag |-> FALSE]

\* instantiate without the `#instance !== undefined` test: constructs on every call
instantiate_AlwaysConstructs(instanceName) ==
    LET c == constructor(TRUE, instanceName)
    IN [outcome |-> c.outcome,
        instance |-> IF c.outcome.kind = "return" THEN c.outcome.value ELSE instance,
        flag |-> c.flag]

\* instantiate keeping one instance per name: a call with another name constructs
instantiate_PerName(instanceName) ==
    IF instance # JUndef /\ instance.configName = instanceName
    THEN [outcome |-> Return(instance), instance |-> instance,
          flag |-> constructorCalledInternally]
    ELSE LET c == constructor(TRUE, instanceName)
         IN [outcome |-> c.outcome,
             instance |-> IF c.outcome.kind = "return" THEN c.outcome.value ELSE instance,
             flag |-> c.flag]

\* instantiate recording the object under construction before it is validated
instantiate_RecordsBeforeValidation(instanceName) ==
    IF instance # JUndef
    THEN [outcome |-> Return(instance), instance |-> instance,
          flag |-> constructorCalledInternally]
    ELSE LET c == constructor(TRUE, instanceName)
         IN [outcome |-> c.outcome,
             instance |-> IF c.outcome.kind = "return" THEN c.outcome.value
                          ELSE [t |-> "ConfigService", id |-> confsCreated + 1,
                                projectName |-> APP_NAME,
                                configName |-> instanceName],
             flag |-> c.flag]

\* ConfigService.instantiate(instanceName): outcome, #instance and flag after it
instantiate(instanceName) ==
    IF instance # JUndef
    THEN [outcome |-> Return(instance), instance |-> instance,
          flag |-> constructorCalledInternally]
    ELSE LET c == constructor(TRUE, instanceName)
         IN [outcome |-> c.outcome,
             instance |-> IF c.outcome.kind = "return" THEN c.outcome.value ELSE instance,
             flag |-> c.flag]

\* set logging the shape mismatch without throwing it
set_SilentOnInvalid(key, value) ==
    IF hasKey(key)
    THEN LET v == validate(settingTable[key], value)
         IN IF v.kind = "throw" THEN v ELSE Return(JUndef)
    ELSE UnknownSettingKey

\* set without the hasKey test: getSetting(key) is undefined for an unknown key
set_NoKeyCheck(key, value) ==
    IF ~hasKey(key) THEN UndefinedProperty
    ELSE LET v == validate(settingTable[key], value)
         IN IF v.kind = "throw" THEN v
            ELSE IF v.value THEN Return(JUndef)
            ELSE ShapeMismatch

\* config.set(key, value): what it throws or returns
set(key, value) ==
    IF hasKey(key)
    THEN LET v == validate(settingTable[key], value)
         IN IF v.kind = "throw" THEN v
            ELSE IF v.value THEN Return(JUndef)
            ELSE ShapeMismatch
    ELSE UnknownSettingKey

\* #config.set placed before the validate test
setStore_WritesBeforeValidate(key, value) ==
    IF hasKey(key) THEN [store EXCEPT ![key] = value] ELSE store

\* the store after config.set(key, value): #config.set runs on the valid branch only
setStore(key, value) ==
    IF set(key, value).kind = "return" THEN [store EXCEPT ![key] = value] ELSE store

\* configVal || parseEnv(...): a stored false falls through to the environment
getterValue_Or(key) ==
    LET configVal == store[key]
        entry == TableLookup(key)
    IN IF configVal # JUndef /\ configVal # JNull /\ configVal # JBool(FALSE)
       THEN Return(configVal)
       ELSE IF entry.shape = "undefined" THEN UndefinedProperty
       ELSE IF entry.shape = "inherited" THEN parseEnv("undefined")
       ELSE parseEnv(entry.envVar)

\* configVal ?? parseEnv(table[key].envVar)
getterValue(key) ==
    LET configVal == store[key]
        entry == TableLookup(key)
    IN IF configVal # JUndef /\ configVal # JNull THEN Return(configVal)
       ELSE IF entry.shape = "undefined" THEN UndefinedProperty
       ELSE IF entry.shape = "inherited" THEN parseEnv("undefined")
       ELSE parseEnv(entry.envVar)

\* the getter with table[key]?.cast: a key without a setting gets its value back
get_OptionalCast(key) ==
    LET value == getterValue(key)
        entry == TableLookup(key)
    IN IF value.kind = "throw" THEN value
       ELSE IF entry.shape \in {"undefined", "inherited"} THEN value
       ELSE cast(entry, value.value)

\* config.get(key): the getter #buildGetter returns
get(key) ==
    LET value == getterValue(key)
        entry == TableLookup(key)
    IN IF value.kind = "throw" THEN value
       ELSE IF entry.shape = "undefined" THEN UndefinedProperty
       ELSE IF entry.shape = "inherited" THEN NotAFunction
       ELSE cast(entry, value.value)

\* the getter persisting the value it read from the environment
getStore_WritesFallback(key) ==
    IF store[key] = JUndef /\ get(key).kind = "return"
    THEN [store EXCEPT ![key] = get(key).value]
    ELSE store

\* The store after config.get(key): the getter only reads #config.
getStore(key) == store

---------------------------------------------------------------------------
(* The state machine *)

InitProcess ==
    /\ \E p \in Processes : platformWin32 = p.win32 /\ env = p.env
    /\ constructorCalledInternally = FALSE
    /\ instance = JUndef
    /\ confsCreated = 0
    /\ ret = [op |-> "none"]

Init == InitProcess /\ store = EmptyStore

InitPersisted == InitProcess /\ store \in PersistedStores

Instantiate(instanceName) ==
    LET r == instantiate(instanceName)
    IN /\ instance' = r.instance
       /\ constructorCalledInternally' = r.flag
       /\ confsCreated' = IF r.instance # instance THEN confsCreated + 1 ELSE confsCreated
       /\ ret' = [op |-> "instantiate", name |-> instanceName, outcome |-> r.outcome]
       /\ UNCHANGED <<platformWin32, env, store>>

\* new ConfigService(instanceName) written outside instantiate
New(instanceName) ==
    LET c == constructor(constructorCalledInternally, instanceName)
    IN /\ constructorCalledInternally' = c.flag
       /\ confsCreated' = IF c.outcome.kind = "return" THEN confsCreated + 1 ELSE confsCreated
       /\ ret' = [op |-> "new", name |-> instanceName, outcome |-> c.outcome]
       /\ UNCHANGED <<platformWin32, env, instance, store>>

Get(key) ==
    /\ instance # JUndef
    /\ store' = getStore(key)
    /\ ret' = [op |-> "get", key |-> key, outcome |-> get(key)]
    /\ UNCHANGED <<platformWin32, env, constructorCalledInternally, instance,
                   confsCreated>>

Set(key, value) ==
    /\ instance # JUndef
    /\ \/ store[key] # JUndef
       \/ Cardinality({k \in AllKeys : store[k] # JUndef}) < MaxStoredKeys
       \/ set(key, value).kind = "throw"
    /\ store' = setStore(key, value)
    /\ ret' = [op |-> "set", key |-> key, value |-> value, outcome |-> set(key, value)]
    /\ UNCHANGED <<platformWin32, env, constructorCalledInternally, instance,
                   confsCreated>>

Next ==
    \/ \E n \in InstanceNames : Instantiate(n)
    \/ \E n \in InstanceNames : New(n)
    \/ \E k \in AllKeys : Get(k)
    \/ \E k \in AllKeys, v \in Values : Set(k, v)

Spec == Init /\ [][Next]_vars

SpecPersisted == InitPersisted /\ [][Next]_vars

---------------------------------------------------------------------------
(* Direct calls of the exported validator and of a setting's validate / cast *)

\* The longest candidate handed to isValidFilename.
MaxFilenameLen == 4

FilenameChars == {"a", "b", ".", " ", Slash, Backslash, NUL, "<"}

\* Every string of at most MaxFilenameLen characters
Filenames == UNION { [1..n -> FilenameChars] : n \in 0..MaxFilenameLen }

\* The calls a process may make, before they are made.
PendingCalls ==
    { [op |-> "call", fn |-> "isValidFilename", testStr |-> f,
       allowSubDir |-> sub, interchangableSlashes |-> slashes] :
         f \in Filenames, sub \in BOOLEAN, slashes \in BOOLEAN }
    \cup { [op |-> "call", fn |-> fn, key |-> k, value |-> v] :
             fn \in {"validate", "cast"}, k \in getKeys, v \in Values }

InitCalls ==
    /\ \E p \in Processes : platformWin32 = p.win32 /\ env = p.env
    /\ constructorCalledInternally = FALSE
    /\ instance = JUndef
    /\ confsCreated = 0
    /\ store = EmptyStore
    /\ ret \in PendingCalls

\* isValidFilename(testStr, allowSubDir, interchangableSlashes)
CallIsValidFilename ==
    /\ ret.op = "call"
    /\ ret.fn = "isValidFilename"
    /\ ret' = [op |-> "isValidFilename", testStr |-> ret.testStr,
               allowSubDir |-> ret.allowSubDir,
               interchangableSlashes |-> ret.interchangableSlashes,
               outcome |-> isValidFilename(ret.testStr, ret.allowSubDir,
                                           ret.interchangableSlashes)]
    /\ UNCHANGED <<platformWin32, env, constructorCalledInternally, instance,
                   confsCreated, store>>

\* settingTable.getSetting(key).validate(value)
CallValidate ==
    /\ ret.op = "call"
    /\ ret.fn = "validate"
    /\ ret' = [op |-> "validate", key |-> ret.key, value |-> ret.value,
               outcome |-> validate(settingTable[ret.key], ret.value)]
    /\ UNCHANGED <<platformWin32, env, constructorCalledInternally, instance,
                   confsCreated, store>>

\* settingTable.getSetting(key).cast(value)
CallCast ==
    /\ ret.op = "call"
    /\ ret.fn = "cast"
    /\ ret' = [op |-> "cast", key |-> ret.key, value |-> ret.value,
               outcome |-> cast(settingTable[ret.key], ret.value)]
    /\ UNCHANGED <<platformWin32, env, constructorCalledInternally, instance,
                   confsCreated, store>>

NextCalls == CallIsValidFilename \/ CallValidate \/ CallCast

SpecCalls == InitCalls /\ [][NextCalls]_vars

---------------------------------------------------------------------------
(* Properties *)

StoredKeys == {k \in AllKeys : store[k] # JUndef}

C2_SetUnknownKeyThrowsAndWritesNothing ==
    [][(ret'.op = "set" /\ ~hasKey(ret'.key))
       => (ret'.outcome = UnknownSettingKey /\ store' = store)]_vars

\* set("badKey", true) refused while the store holds a value.
C2_Witness ==
    /\ ret.op = "set"
    /\ ret.key = "badKey"
    /\ ret.value = JBool(TRUE)
    /\ ret.outcome = UnknownSettingKey
    /\ StoredKeys # {}

\* C3: set(k, v) with a value the setting validates returns, the store then
\* holds v under k, and get(k) returns exactly the stored value whatever the
\* setting's environment variable holds.
C3_RoundTrip ==
    /\ (/\ ret.op = "set"
        /\ hasKey(ret.key)
        /\ validate(settingTable[ret.key], ret.value) = Return(TRUE))
       => (/\ ret.outcome = Return(JUndef)
           /\ store[ret.key] = ret.value
           /\ get(ret.key) = Return(ret.value))
    /\ (ret.op = "get" /\ store[ret.key] # JUndef)
       => ret.outcome = Return(store[ret.key])

\* get returns the stored false although the environment default is true.
C3_Witness ==
    /\ ret.op = "get"
    /\ ret.key = "enableThumbnailCache"
    /\ store["enableThumbnailCache"] = JBool(FALSE)
    /\ ProcessEnv("ENABLE_THUMBNAIL_CACHE") = EnvText("true")
    /\ ret.outcome = Return(JBool(FALSE))

\* C4: every key the store holds is a key of the setting table and its value
\* is validated by that setting.
C4_StoreHoldsOnlyValidSettings ==
    \A k \in AllKeys :
        store[k] # JUndef =>
            (hasKey(k) /\ validate(settingTable[k], store[k]) = Return(TRUE))

\* A fragment list with a fragment is stored and a later set has been refused.
C4_Witness ==
    /\ store["trackedFilenames"] = FragmentList(TRUE, <<Fragment(<<"a", ".">>, TRUE)>>)
    /\ ret.op = "set"
    /\ ret.outcome.kind = "throw"

\* C5: once an instance exists, instantiate with that instance's name returns
\* that same instance and constructs nothing; every instance instantiate
\* returns is the recorded one.
C5_InstantiateTwiceSameInstance ==
    [][/\ (/\ ret'.op = "instantiate"
           /\ instance # JUndef
           /\ ret'.name = instance.configName)
          => (/\ ret'.outcome = Return(instance)
              /\ instance' = instance
              /\ confsCreated' = confsCreated)
       /\ (ret'.op = "instantiate" /\ ret'.outcome.kind = "return")
          => ret'.outcome = Return(instance')]_vars

\* instantiate called again with the instance's name after the instance was used.
C5_Witness ==
    /\ ret.op = "instantiate"
    /\ instance # JUndef
    /\ ret.name = instance.configName
    /\ ret.outcome = Return(instance)
    /\ confsCreated = 1
    /\ StoredKeys # {}

\* isValidFilename(name) with the default flags returned true / false
LegalName(name) == isValidFilename(name, FALSE, TRUE) = Return(TRUE)
IllegalName(name) == isValidFilename(name, FALSE, TRUE) = Return(FALSE)

\* C6 as the specification states it: instantiate(B) with a legal name B
\* returns an instance bound to the store derived from B, also after an
\* instance was made for another name A.
C6_InstancePerName ==
    (ret.op = "instantiate" /\ LegalName(ret.name) /\ ret.outcome.kind = "return")
        => ret.outcome.value.configName = ret.name

\* C6 amended: the singleton is process-wide.  Once an instance exists,
\* instantiate with any other name constructs nothing and returns the existing
\* instance, which stays bound to the store of the first name.
C6_SingletonIsProcessWide ==
    [][(/\ ret'.op = "instantiate"
        /\ instance # JUndef
        /\ ret'.name # instance.configName)
       => (/\ ret'.outcome = Return(instance)
           /\ ret'.outcome.value.configName # ret'.name
           /\ instance' = instance
           /\ confsCreated' = confsCreated)]_vars

\* instantiate with a second legal name has returned the first name's instance.
C6_Witness ==
    /\ ret.op = "instantiate"
    /\ instance # JUndef
    /\ LegalName(ret.name)
    /\ ret.name # instance.configName
    /\ ret.outcome = Return(instance)

\* C7 as the specification states it: instantiate with an illegal name throws
\* the invalid-instance-name error in every state of the service.
C7_IllegalNameAlwaysFails ==
    (ret.op = "instantiate" /\ IllegalName(ret.name))
        => ret.outcome = InvalidInstanceName

\* C7 amended: while no instance exists, instantiate with an illegal name
\* throws the invalid-instance-name error, records no instance and opens no
\* store; once an instance exists, instantiate returns it without looking at
\* the name.
C7_IllegalNameFailsWhileUnconstructed ==
    [][(ret'.op = "instantiate" /\ IllegalName(ret'.name))
       => IF instance = JUndef
          THEN /\ ret'.outcome = InvalidInstanceName
               /\ instance' = JUndef
               /\ confsCreated' = confsCreated
          ELSE /\ ret'.outcome = Return(instance)
               /\ instance' = instance]_vars

\* An illegal name was refused while no instance existed.
C7_Witness ==
    /\ ret.op = "instantiate"
    /\ IllegalName(ret.name)
    /\ ret.outcome = InvalidInstanceName
    /\ instance = JUndef
    /\ confsCreated = 0

\* C8: get with a key outside the setting table throws, whether or not the
\* store holds a value under the key and whatever the environment holds.
C8_GetUnknownKeyThrows ==
    (ret.op = "get" /\ ~hasKey(ret.key)) => ret.outcome.kind = "throw"

\* get("badKey") has thrown although the store holds a value under badKey.
C8_Witness ==
    /\ ret.op = "get"
    /\ ret.key = "badKey"
    /\ store["badKey"] # JUndef
    /\ ret.outcome.kind = "throw"

\* C9: get(k) for a registry key with no stored value and the setting's
\* environment variable unset throws the cast's shape-mismatch error.
C9_GetUnsetThrowsCastFailed ==
    (/\ ret.op = "get"
     /\ hasKey(ret.key)
     /\ store[ret.key] = JUndef
     /\ ProcessEnv(settingTable[ret.key].envVar) = JUndef)
        => ret.outcome = CastFailed

\* get("trackedExtensions") with nothing stored and TRACKED_EXTENSIONS unset.
C9_Witness ==
    /\ ret.op = "get"
    /\ ret.key = "trackedExtensions"
    /\ store["trackedExtensions"] = JUndef
    /\ ProcessEnv("TRACKED_EXTENSIONS") = JUndef
    /\ ret.outcome = CastFailed

\* The variable is set to a text JSON.parse rejects.
UnparsableVar(name) ==
    /\ ProcessEnv(name) # JUndef
    /\ JSONparse(ProcessEnv(name).text) = SyntaxError

\* isValidFilename as it is when ENFORCE_WINDOWS_FILENAMES is unset
isValidFilenameOverrideUnset(testStr, allowSubDir, interchangableSlashes) ==
    Return(/\ testStr # <<>>
           /\ testStr # <<".">>
           /\ testStr # <<".", ".">>
           /\ ~MatchesIllegal(testStr, allowSubDir, interchangableSlashes, platformWin32))

\* C10: an unparsable environment variable counts as unset.  get(k) with no
\* stored value and an unparsable variable throws the shape-mismatch error of
\* cast(null), and with an unparsable ENFORCE_WINDOWS_FILENAMES the name test
\* of instantiate answers as with the variable unset: instantiate throws only
\* the invalid-instance-name error, and only for a name that is illegal then.
C10_UnparsableIsNull ==
    /\ (/\ ret.op = "get"
        /\ hasKey(ret.key)
        /\ store[ret.key] = JUndef
        /\ UnparsableVar(settingTable[ret.key].envVar))
       => ret.outcome = CastFailed
    /\ (/\ ret.op = "instantiate"
        /\ UnparsableVar("ENFORCE_WINDOWS_FILENAMES")
        /\ ret.outcome.kind = "throw")
       => (/\ ret.outcome = InvalidInstanceName
           /\ isValidFilenameOverrideUnset(ret.name, FALSE, TRUE) = Return(FALSE))


---------------------------------------------------------------------------
(* C11 - C13: a setting's validate and cast, called directly *)

C11_WitnessRejected ==
    /\ ret.op = "cast"
    /\ validate(settingTable[ret.key], ret.value) = Return(FALSE)
    /\ ret.outcome = CastFailed

PathFragmentKeys == {k \in getKeys : settingTable[k].shape = "pathFragmentList"}

\* C12: each path-fragment setting rejects an empty whitelist and accepts an
\* empty blacklist.
C12_EmptyListNeedsBlacklist ==
    (ret.op = "validate" /\ ret.key \in PathFragmentKeys) =>
        /\ ret.value = FragmentList(TRUE, <<>>) => ret.outcome = Return(FALSE)
        /\ ret.value = FragmentList(FALSE, <<>>) => ret.outcome = Return(TRUE)

\* trackedFilenames has rejected the empty whitelist.
C12_Witness ==
    /\ ret.op = "validate"
    /\ ret.key = "trackedFilenames"
    /\ ret.value = FragmentList(TRUE, <<>>)
    /\ ret.outcome = Return(FALSE)

\* trackedDirectories has accepted the empty blacklist.
C12_WitnessBlacklist ==
    /\ ret.op = "validate"
    /\ ret.key = "trackedDirectories"
    /\ ret.value = FragmentList(FALSE, <<>>)
    /\ ret.outcome = Return(TRUE)

\* A list whose only fragment has the empty string as data.
EmptyFragmentList == FragmentList(FALSE, <<Fragment(<<>>, TRUE)>>)

\* C13: a fragment whose data is the empty string is accepted exactly by
\* the settings built with allowEmptyStr = TRUE: trackedExtensions accepts
\* it, trackedFilenames and trackedDirectories reject it.
C13_EmptyFragmentFollowsFlag ==
    ( /\ ret.op = "validate"
      /\ ret.key \in PathFragmentKeys
      /\ ret.value = EmptyFragmentList
      /\ EnforceWindowsRules.kind = "return" ) =>
        ret.outcome = Return(settingTable[ret.key].allowEmptyStr)


---------------------------------------------------------------------------
(* C14 - C17: isValidFilename, called directly *)

\* The platform and ENFORCE_WINDOWS_FILENAMES select POSIX or Windows rules.
RulesKnown == EnforceWindowsRules.kind = "return"
WindowsRules == EnforceWindowsRules = Return(TRUE)
PosixRules == EnforceWindowsRules = Return(FALSE)

Contains(testStr, c) == \E i \in 1..Len(testStr) : testStr[i] = c

EndsWith(testStr, chars) ==
    Len(testStr) > 0 /\ testStr[Len(testStr)] \in chars

\* C14: with allowSubDir = FALSE every candidate that contains '/' or NUL
\* is rejected, for both values of interchangableSlashes, under POSIX and
\* under Windows rules.
C14_SeparatorAndNulRejected ==
    ( /\ ret.op = "isValidFilename"
      /\ ~ret.allowSubDir
      /\ Contains(ret.testStr, Slash) \/ Contains(ret.testStr, NUL)
      /\ RulesKnown ) =>
        ret.outcome = Return(FALSE)

\* Under POSIX rules with slashes not interchangeable, a file name whose
\* only offending character is an inner '/' has been rejected.
C14_Witness ==
    /\ ret.op = "isValidFilename"
    /\ ret.testStr = <<"a", Slash, "a">>
    /\ ~ret.allowSubDir
    /\ ~ret.interchangableSlashes
    /\ PosixRules
    /\ ret.outcome = Return(FALSE)

\* C15: "", "." and ".." are rejected under every combination of
\* allowSubDir, interchangableSlashes and POSIX / Windows rules.
C15_ReservedNamesRejected ==
    ( /\ ret.op = "isValidFilename"
      /\ ret.testStr \in {<<>>, <<".">>, <<".", ".">>}
      /\ RulesKnown ) =>
        ret.outcome = Return(FALSE)

\* ".." has been rejected where no character of it is illegal: POSIX
\* rules, subdirectories allowed.
C15_Witness ==
    /\ ret.op = "isValidFilename"
    /\ ret.testStr = <<".", ".">>
    /\ ret.allowSubDir
    /\ PosixRules
    /\ ret.outcome = Return(FALSE)

\* testStr holds nothing but its backslashes that the active rules forbid.
OnlyBackslashOffends(testStr, windows) ==
    /\ testStr \notin {<<>>, <<".">>, <<".", ".">>}
    /\ ~Contains(testStr, Slash)
    /\ ~Contains(testStr, NUL)
    /\ windows => /\ \A i \in 1..Len(testStr) : testStr[i] \notin WinForbiddenInternal
                  /\ ~EndsWith(testStr, {" ", "."})

\* C16: with allowSubDir = FALSE a candidate that contains '\' and nothing
\* else that is forbidden is rejected exactly when Windows rules are active
\* or interchangableSlashes is TRUE; under POSIX rules with
\* interchangableSlashes = FALSE it is accepted.
C16_BackslashRejectedIffWindowsOrInterchangeable ==
    ( /\ ret.op = "isValidFilename"
      /\ ~ret.allowSubDir
      /\ Contains(ret.testStr, Backslash)
      /\ RulesKnown
      /\ OnlyBackslashOffends(ret.testStr, WindowsRules) ) =>
        ret.outcome = Return(~(WindowsRules \/ ret.interchangableSlashes))

\* Under POSIX rules with interchangableSlashes = FALSE, "a\a" has been
\* accepted as a file name.
C16_Witness ==
    /\ ret.op = "isValidFilename"
    /\ ret.testStr = <<"a", Backslash, "a">>
    /\ ~ret.allowSubDir
    /\ ~ret.interchangableSlashes
    /\ PosixRules
    /\ ret.outcome = Return(TRUE)

\* Under POSIX rules with interchangableSlashes = TRUE it has been rejected.
C16_WitnessInterchangeable ==
    /\ ret.op = "isValidFilename"
    /\ ret.testStr = <<"a", Backslash, "a">>
    /\ ~ret.allowSubDir
    /\ ret.interchangableSlashes
    /\ PosixRules
    /\ ret.outcome = Return(FALSE)

C17_WitnessInnerDot ==
    /\ ret.op = "isValidFilename"
    /\ ret.testStr = <<"a", ".", Slash, "b">>
    /\ ret.allowSubDir
    /\ WindowsRules
    /\ ret.outcome = Return(TRUE)


---------------------------------------------------------------------------
(* C18 - C20: the constructor gate, the getter and failed instantiation *)

\* C18: the 'constructor called internally' flag is FALSE in every reachable
\* state, whatever instantiate calls were made, so a construction written
\* outside instantiate always fails with the 'not externally constructable'
\* error and creates neither an instance nor a store handle.
C18_ConstructorGate ==
    /\ [](constructorCalledInternally = FALSE)
    /\ [][ret'.op = "new" =>
             /\ ret'.outcome = NotExternallyConstructable
             /\ instance' = instance
             /\ confsCreated' = confsCreated]_vars

\* Once instantiate has succeeded, a direct construction with a legal name
\* has failed and only the one store handle exists.
C18_Witness ==
    /\ ret.op = "new"
    /\ LegalName(ret.name)
    /\ instance # JUndef
    /\ confsCreated = 1
    /\ ret.outcome = NotExternallyConstructable

\* C19: get never changes the store, whether it returns or raises; a value
\* read from the environment is not written back.
C19_GetLeavesStore ==
    [][ret'.op = "get" => store' = store]_vars

\* get has returned a value read from the environment, and the store still
\* holds nothing under the key.
C19_Witness ==
    /\ ret.op = "get"
    /\ ret.key \in getKeys
    /\ store[ret.key] = JUndef
    /\ ret.outcome.kind = "return"

\* get has returned a persisted value.
C19_WitnessStored ==
    /\ ret.op = "get"
    /\ ret.key \in getKeys
    /\ store[ret.key] # JUndef
    /\ ret.outcome = Return(store[ret.key])

\* C20: an instantiate that raises records no instance; an instantiate with
\* a legal name made while none is recorded constructs an instance bound to
\* that name, records it and returns it; a recorded instance is never
\* replaced or cleared.
C20_FailedInstantiateLeavesUnconstructed ==
    [][ /\ (ret'.op = "instantiate" /\ ret'.outcome.kind = "throw") =>
             (instance = JUndef /\ instance' = JUndef /\ confsCreated' = confsCreated)
        /\ (ret'.op = "instantiate" /\ instance = JUndef /\ LegalName(ret'.name)) =>
             /\ instance' # JUndef
             /\ instance'.configName = ret'.name
             /\ ret'.outcome = Return(instance')
             /\ confsCreated' = confsCreated + 1
        /\ instance # JUndef => instance' = instance ]_vars

\* instantiate with an illegal name has raised the instance-name error and
\* nothing is recorded or constructed.
C20_Witness ==
    /\ ret.op = "instantiate"
    /\ IllegalName(ret.name)
    /\ ret.outcome = InvalidInstanceName
    /\ instance = JUndef
    /\ confsCreated = 0

=============================================================================
